---- MODULE Spec2Model ----
(***************************************************************************)
(* Slot-car race controller (sketch/PCLapCounterHW.ino, 2017-01-25         *)
(* revision, lines 1144-2263): Race, Lane, FalseStart, the interrupt       *)
(* service routines and the main loop.                                     *)
(*                                                                         *)
(* Time is the value millis() returns.  unsigned long arithmetic is        *)
(* modular; the model keeps a word of WordMod values in place of 2^32 so   *)
(* that the values stay enumerable, with the all-ones word as the          *)
(* 0xFFFFFFFF sentinel.  The clock never wraps inside the explored window. *)
(* Lane::now is a scratch field written and read only inside lapDetected   *)
(* and is not kept as state.  LED outputs are not part of the state.       *)
(* Two of the six lanes are kept (lane1, lane2); lanes meet only in the    *)
(* race's fields and in the all-relays switch.  Cars is the set of lanes   *)
(* with a car on the track, the lanes whose sensor line sees edges.        *)
(* A rising edge is latched by the interrupt hardware and served when the  *)
(* lane's interrupt is attached; lapDetected reads millis() when it runs,  *)
(* so ISR(n) stands for the edge and its service.                          *)
(*                                                                         *)
(* jumped, startedMs and stage are history variables: they record what     *)
(* has happened and are read by no action's guard or assignment to the     *)
(* program's state.  startedMs is the time the race has spent in Started   *)
(* since the last Race::init with the false start function enabled and     *)
(* the race fuse set: a lane is latched only while Init, before the race    *)
(* starts, so this is all the Started time of a race with a latched lane;  *)
(* without a latched lane nothing reads the time and it is not counted.    *)
(*                                                                         *)
(* Spec takes the host's tokens as framed and an edge as served when it    *)
(* arrives.  SpecLive adds edges that arrive while the interrupts are      *)
(* detached (pending) and the fairness of loop(); SpecFrame starts with    *)
(* bytes in the Serial receive buffer and frames the tokens as loop()      *)
(* does (rx, toks, rxAll).                                                 *)
(* SpecPanel lets the three buttons be pressed and released (btn);         *)
(* SpecExpiry adds the fairness of the clock to a race with a track call;  *)
(* SpecResume and SpecPulse start from a paused race and from attached     *)
(* interrupts with the fields drawn from sets of values, to run start()    *)
(* and lapDetected() on values the short clock window does not reach.      *)
(* SpecLaps runs loop() from those lane values with setups at any time,    *)
(* and SpecCycle is SpecPanel with the fairness of loop() and the clock.   *)
(*                                                                         *)
(* Two other programs of the repository are modelled as operators only:    *)
(* the PW0n1 / PW0n0 handlers of the 2016-10-22 revision of the sketch     *)
(* (legacy_PWR_n_ON, legacy_PWR_n_OFF) and the Lane class of the laps-only *)
(* sketch for six lanes (LapsOnly_lapDetected, LapsOnly_reportLap).        *)
(***************************************************************************)
EXTENDS Integers, Sequences, FiniteSets, TLC

\* ---------------------------------------------------------------- bounds
TickMs == 3000
MaxTicks == 4
WordMod == 65536
MaxChunks == 5

\* ------------------------------------------------------ program constants
laneProtectionTime == 9000
delayMillis == <<0, 1000, 2000, 3000, 4000, 5000, 6000, 7000>>
SetupMillis == 3638
Sentinel == WordMod - 1

RACE_INIT == "0"
RACE_STARTED == "1"
RACE_FINISHED == "2"
RACE_PAUSED == "3"

Lanes == {1, 2}
LastLane == CHOOSE n \in Lanes : \A m \in Lanes : m <= n
Cars == {1}
ModeSwitch == {0, 11}
Modes == 0..15
MaxNow == SetupMillis + MaxTicks * TickMs
None == <<>>

\* ----------------------------------------------------- protocol tokens
RC0 == <<"R", "C", "0">>
RC2 == <<"R", "C", "2">>
RC3 == <<"R", "C", "3">>
DEB == <<"D", "E", "B">>
SL_1_ON == <<"S", "L", "0", "1", "1">>
SL_1_OFF == <<"S", "L", "0", "1", "0">>
GO_ON == <<"S", "L", "0", "6", "1">>
GO_OFF == <<"S", "L", "0", "6", "0">>
STOP_ON == <<"S", "L", "0", "7", "1">>
PWR_ON == <<"P", "W", "0", "0", "1">>
PWR_OFF == <<"P", "W", "0", "0", "0">>
Digit == <<"1", "2", "3", "4", "5", "6">>
PWR_n_ON(n) == <<"P", "W", "0", Digit[n], "1">>
PWR_n_OFF(n) == <<"P", "W", "0", Digit[n], "0">>
Unknown == <<"X", "Y", "0", "0", "1">>

Tokens ==
  {RC0, RC2, RC3, DEB, GO_ON, GO_OFF, STOP_ON, PWR_ON, PWR_OFF, Unknown}
  \cup {PWR_n_ON(n) : n \in Lanes} \cup {PWR_n_OFF(n) : n \in Lanes}

\* substring(0, 3) made upper case, as a comparison ignoring case would see it
substring3_anyCase(s) ==
  LET upper(c) == CASE c = "r" -> "R" [] c = "c" -> "C" [] c = "d" -> "D"
                    [] c = "e" -> "E" [] c = "b" -> "B" [] OTHER -> c
  IN [i \in 1..(IF Len(s) < 3 THEN Len(s) ELSE 3) |-> upper(s[i])]

\* the whole string in place of its first three characters
substring3_whole(s) == s

substring3(s) == SubSeq(s, 1, IF Len(s) < 3 THEN Len(s) ELSE 3)

\* Stream::readStringUntil: the characters up to the terminator, which is
\* consumed and not returned; when no terminator comes the read times out
\* and returns what has arrived
readStringUntil(buf, ch) ==
  LET at == {i \in 1..Len(buf) : buf[i] = ch} IN
    IF at = {}
      THEN [str |-> buf, rest |-> None]
      ELSE LET i == CHOOSE k \in at : \A j \in at : k <= j IN
             [str |-> SubSeq(buf, 1, i - 1),
              rest |-> SubSeq(buf, i + 1, Len(buf))]

\* ------------------------------------------------ unsigned long arithmetic
Sub32(a, b) == (a - b + WordMod) % WordMod
Add32(a, b) == (a + b) % WordMod

\* ------------------------------------------------------------- class Race
Race_new ==
  [state |-> RACE_FINISHED, previousState |-> RACE_FINISHED,
   falseStartEnabled |-> FALSE, falseStartDetected |-> FALSE,
   startingLights |-> FALSE,
   penaltyBeginMillis |-> 0, penaltyServedMillis |-> 0,
   penaltyTimeMillis |-> 0]

isStarted(r) == r.state = RACE_STARTED
isPaused(r) == r.state = RACE_PAUSED
isFinished(r) == r.state = RACE_FINISHED
isInit(r) == r.state = RACE_INIT
fromState(r, from) == from = r.previousState

\* penaltyStart that does not re-base the begin instant on resume
penaltyStart_noRebase(r, t) ==
  IF r.previousState = RACE_INIT
    THEN [r EXCEPT !.penaltyBeginMillis = t]
    ELSE r

\* penaltyStart that on resume forgets to take the served time off
penaltyStart_dropServed(r, t) ==
  IF r.previousState = RACE_INIT
    THEN [r EXCEPT !.penaltyBeginMillis = t]
    ELSE IF r.previousState = RACE_PAUSED
      THEN [r EXCEPT !.penaltyBeginMillis =
              Add32(r.penaltyBeginMillis, Sub32(t, r.penaltyBeginMillis))]
      ELSE r

\* penaltyStart that takes every start that is not a resume as a new start
penaltyStart_anyStart(r, t) ==
  IF r.previousState = RACE_PAUSED
    THEN [r EXCEPT !.penaltyBeginMillis =
            Sub32(Add32(r.penaltyBeginMillis, Sub32(t, r.penaltyBeginMillis)),
                  r.penaltyServedMillis)]
    ELSE [r EXCEPT !.penaltyBeginMillis = t]

penaltyStart(r, t) ==
  IF r.previousState = RACE_INIT
    THEN [r EXCEPT !.penaltyBeginMillis = t]
    ELSE IF r.previousState = RACE_PAUSED
      THEN [r EXCEPT !.penaltyBeginMillis =
              Sub32(Add32(r.penaltyBeginMillis, Sub32(t, r.penaltyBeginMillis)),
                    r.penaltyServedMillis)]
      ELSE r

\* getPenaltyServedMillis that returns the stored value without recomputing
getPenaltyServedMillis_frozen(r, t) == r

\* getPenaltyServedMillis that recomputes in every race state
getPenaltyServedMillis_anyState(r, t) ==
  IF r.falseStartDetected
    THEN [r EXCEPT !.penaltyServedMillis = Sub32(t, r.penaltyBeginMillis)]
    ELSE r

getPenaltyServedMillis(r, t) ==
  IF r.falseStartDetected /\ isStarted(r)
    THEN [r EXCEPT !.penaltyServedMillis = Sub32(t, r.penaltyBeginMillis)]
    ELSE r

isFalseStartPenaltyServed(r, t) ==
  getPenaltyServedMillis(r, t).penaltyServedMillis > r.penaltyTimeMillis

\* initFalseStart that takes the function as enabled from mode 9 on
initFalseStart_from9(r, mode) ==
  IF mode > 8
    THEN [r EXCEPT !.falseStartEnabled = TRUE,
                   !.falseStartDetected = FALSE,
                   !.penaltyBeginMillis = Sentinel,
                   !.penaltyServedMillis = 0,
                   !.penaltyTimeMillis = delayMillis[(mode - 8) + 1]]
    ELSE [r EXCEPT !.falseStartEnabled = FALSE]

initFalseStart(r, mode) ==
  IF mode > 7
    THEN [r EXCEPT !.falseStartEnabled = TRUE,
                   !.falseStartDetected = FALSE,
                   !.penaltyBeginMillis = Sentinel,
                   !.penaltyServedMillis = 0,
                   !.penaltyTimeMillis = delayMillis[(mode - 8) + 1]]
    ELSE [r EXCEPT !.falseStartEnabled = FALSE]

\* setFalseStartDetected that leaves the race fuse as it is
setFalseStartDetected_noop(r) == r

setFalseStartDetected(r) == [r EXCEPT !.falseStartDetected = TRUE]

Race_init(r) == [r EXCEPT !.previousState = r.state, !.state = RACE_INIT]
\* start that does not record the state it leaves
Race_start_keepPrev(r, t) ==
  penaltyStart([r EXCEPT !.state = RACE_STARTED], t)

Race_start(r, t) ==
  penaltyStart([r EXCEPT !.previousState = r.state, !.state = RACE_STARTED], t)
\* pause that does nothing in a race that is Paused already
Race_pause_guarded(r) ==
  IF r.state = RACE_PAUSED
    THEN r
    ELSE [r EXCEPT !.previousState = r.state, !.state = RACE_PAUSED]

\* pause that does not record the state it leaves
Race_pause_keepPrev(r) == [r EXCEPT !.state = RACE_PAUSED]

Race_pause(r) == [r EXCEPT !.previousState = r.state, !.state = RACE_PAUSED]
\* finish that takes effect only in a race that is Started
Race_finish_onlyStarted(r) ==
  IF isStarted(r)
    THEN [r EXCEPT !.previousState = r.state, !.state = RACE_FINISHED]
    ELSE r

Race_finish(r) == [r EXCEPT !.previousState = r.state, !.state = RACE_FINISHED]
Race_debug(r, t) == getPenaltyServedMillis(r, t)
startingLightsOn(r) == [r EXCEPT !.startingLights = TRUE]
startingLightsOff(r) == [r EXCEPT !.startingLights = FALSE]

\* ------------------------------------------------------------- class Lane
Lane_new ==
  [start |-> 0, finish |-> 0, count |-> -1, reported |-> TRUE,
   falseStart |-> FALSE]

\* lapDetected in which a discarded pulse restarts the window
Lane_lapDetected_extend(L, t) ==
  IF Sub32(t, L.finish) < laneProtectionTime
    THEN [L EXCEPT !.finish = t]
    ELSE [L EXCEPT !.start = L.finish, !.finish = t,
                   !.count = L.count + 1, !.reported = FALSE]

\* lapDetected with a window of a third of the protection time
Lane_lapDetected_shortWindow(L, t) ==
  IF Sub32(t, L.finish) < laneProtectionTime \div 3
    THEN L
    ELSE [L EXCEPT !.start = L.finish, !.finish = t,
                   !.count = L.count + 1, !.reported = FALSE]

\* lapDetected without the protection window
Lane_lapDetected_noWindow(L, t) ==
  [L EXCEPT !.start = L.finish, !.finish = t,
            !.count = L.count + 1, !.reported = FALSE]

\* lapDetected that lets the first pulse after boot through
Lane_lapDetected_firstFree(L, t) ==
  IF L.finish # 0 /\ Sub32(t, L.finish) < laneProtectionTime
    THEN L
    ELSE [L EXCEPT !.start = L.finish, !.finish = t,
                   !.count = L.count + 1, !.reported = FALSE]

\* lapDetected that takes an accepted pulse as the end of a false start
Lane_lapDetected_clearLatch(L, t) ==
  IF Sub32(t, L.finish) < laneProtectionTime
    THEN L
    ELSE [L EXCEPT !.start = L.finish, !.finish = t,
                   !.count = L.count + 1, !.reported = FALSE,
                   !.falseStart = FALSE]

\* lapDetected that does not mark the new lap as unreported
Lane_lapDetected_noFlag(L, t) ==
  IF Sub32(t, L.finish) < laneProtectionTime
    THEN L
    ELSE [L EXCEPT !.start = L.finish, !.finish = t, !.count = L.count + 1]

Lane_lapDetected(L, t) ==
  IF Sub32(t, L.finish) < laneProtectionTime
    THEN L
    ELSE [L EXCEPT !.start = L.finish, !.finish = t,
                   !.count = L.count + 1, !.reported = FALSE]

\* reset that puts the lane's times back to the constructor's values
Lane_reset_clearTimes(L) ==
  [L EXCEPT !.start = 0, !.finish = 0,
            !.reported = TRUE, !.falseStart = FALSE, !.count = -1]

\* reset that leaves the false-start latch as it is
Lane_reset_keepLatch(L) == [L EXCEPT !.reported = TRUE, !.count = -1]

\* reset that sets the lap count to 0
Lane_reset_countZero(L) ==
  [L EXCEPT !.reported = TRUE, !.falseStart = FALSE, !.count = 0]

Lane_reset(L) ==
  [L EXCEPT !.reported = TRUE, !.falseStart = FALSE, !.count = -1]

\* powerOn without the false-start guard
Lane_powerOn_unguarded(L, pin) == TRUE

\* powerOn with the false-start test the wrong way round
Lane_powerOn_inverted(L, pin) == IF L.falseStart THEN TRUE ELSE pin

\* powerOn / powerOff give the level written to the lane's relay pin
Lane_powerOn(L, pin) == IF ~L.falseStart THEN TRUE ELSE pin
Lane_powerOff(L, pin) == FALSE

\* reportLap that detects a false start in any state of the race
Lane_reportLap_anyState(n, L, pin, r, t) ==
  LET line == IF ~L.reported
                THEN <<[lane |-> n, ms |-> Sub32(L.finish, L.start)]>>
                ELSE None
      L1 == [L EXCEPT !.reported = TRUE]
      detect == r.falseStartEnabled /\ ~L1.falseStart /\ L1.count = 0
      L2 == IF detect THEN [L1 EXCEPT !.falseStart = TRUE] ELSE L1
      pin2 == IF detect THEN Lane_powerOff(L1, pin) ELSE pin
      r2 == IF detect THEN setFalseStartDetected(r) ELSE r
      asked == r.falseStartEnabled /\ L2.falseStart
      r3 == IF asked THEN getPenaltyServedMillis(r2, t) ELSE r2
      served == asked /\ isFalseStartPenaltyServed(r2, t)
      L3 == IF served THEN [L2 EXCEPT !.falseStart = FALSE] ELSE L2
      pin3 == IF served THEN Lane_powerOn(L3, pin2) ELSE pin2
  IN [lane |-> L3, pin |-> pin3, race |-> r3, out |-> line]

\* reportLap that does not mark the lap as reported
Lane_reportLap_noMark(n, L, pin, r, t) ==
  LET line == IF ~L.reported
                THEN <<[lane |-> n, ms |-> Sub32(L.finish, L.start)]>>
                ELSE None
      detect == r.falseStartEnabled /\ isInit(r)
                  /\ ~L.falseStart /\ L.count = 0
      L2 == IF detect THEN [L EXCEPT !.falseStart = TRUE] ELSE L
      pin2 == IF detect THEN FALSE ELSE pin
      r2 == IF detect THEN setFalseStartDetected(r) ELSE r
      asked == r.falseStartEnabled /\ L2.falseStart
      r3 == IF asked THEN getPenaltyServedMillis(r2, t) ELSE r2
      served == asked /\ isFalseStartPenaltyServed(r2, t)
      L3 == IF served THEN [L2 EXCEPT !.falseStart = FALSE] ELSE L2
      pin3 == IF served THEN TRUE ELSE pin2
  IN [lane |-> L3, pin |-> pin3, race |-> r3, out |-> line]

\* reportLap of lane n: the lane, its relay pin, the race, and the line sent
Lane_reportLap(n, L, pin, r, t) ==
  LET line == IF ~L.reported
                THEN <<[lane |-> n, ms |-> Sub32(L.finish, L.start)]>>
                ELSE None
      L1 == [L EXCEPT !.reported = TRUE]
      detect == r.falseStartEnabled /\ isInit(r)
                  /\ ~L1.falseStart /\ L1.count = 0
      L2 == IF detect THEN [L1 EXCEPT !.falseStart = TRUE] ELSE L1
      pin2 == IF detect THEN Lane_powerOff(L1, pin) ELSE pin
      r2 == IF detect THEN setFalseStartDetected(r) ELSE r
      asked == r.falseStartEnabled /\ L2.falseStart
      r3 == IF asked THEN getPenaltyServedMillis(r2, t) ELSE r2
      served == asked /\ isFalseStartPenaltyServed(r2, t)
      L3 == IF served THEN [L2 EXCEPT !.falseStart = FALSE] ELSE L2
      pin3 == IF served THEN Lane_powerOn(L3, pin2) ELSE pin2
  IN [lane |-> L3, pin |-> pin3, race |-> r3, out |-> line]

\* ----------------------------------------------------- relays (all lanes)
allRelaysOn(rl) == [n \in Lanes |-> TRUE]
allRelaysOff(rl) == [n \in Lanes |-> FALSE]
\* setPowerOn that leaves the relays as they are
setPowerOn_noop(rl) == rl

setPowerOn(rl) == allRelaysOn(rl)
setPowerOff(rl) == allRelaysOff(rl)

\* ------------------------------------- 2016-10-22 revision, lines 1070-1106
\* The handlers of PW0n1 and PW0n0 in the loop() of the earlier revision,
\* which tests the latch outside the Lane class.  ls are the lanes (their
\* falseStart field is what isFalseStart() returns), rl the relay pins,
\* TRUE for a relay that is on (the pin written LOW).
legacy_PWR_n_ON(n, ls, rl) ==
  IF ~ls[1].falseStart THEN [rl EXCEPT ![n] = TRUE] ELSE rl
legacy_PWR_n_OFF(n, ls, rl) == [rl EXCEPT ![n] = FALSE]

\* -------------------- sketchbook/PCLapCounterSixLanesLapsOnly, class Lane
\* The laps-only sketch for six lanes: the same lapDetected and the first
\* half of reportLap, with its own protection time.  L is a lane with the
\* fields start, finish, count and reported.
LapsOnly_laneProtectionTime == 3000

LapsOnly_lapDetected(L, t) ==
  IF Sub32(t, L.finish) < LapsOnly_laneProtectionTime
    THEN L
    ELSE [L EXCEPT !.start = L.finish, !.finish = t,
                   !.count = L.count + 1, !.reported = FALSE]

LapsOnly_reportLap(n, L) ==
  [lane |-> [L EXCEPT !.reported = TRUE],
   out |-> IF ~L.reported
             THEN <<[lane |-> n, ms |-> Sub32(L.finish, L.start)]>>
             ELSE None]

\* ------------------------------------------------------ class FalseStart
FalseStart_reset(ls) == [n \in Lanes |-> Lane_reset(ls[n])]

\* ----------------------------------------------------------- class Button
ButtonNames == {"raceStart", "raceRestart", "racePause"}
ButtonOrder == <<"raceStart", "raceRestart", "racePause">>
BUTTON_RACE_START == <<"[", "B", "T", "0", "1", "]">>
BUTTON_RACE_RESTART == <<"[", "B", "T", "0", "2", "]">>
BUTTON_RACE_PAUSE == <<"[", "B", "T", "0", "3", "]">>
ButtonMessage(b) ==
  CASE b = "raceStart" -> BUTTON_RACE_START
    [] b = "raceRestart" -> BUTTON_RACE_RESTART
    [] b = "racePause" -> BUTTON_RACE_PAUSE

Button_new == [reported |-> FALSE, pressed |-> FALSE]

\* the pin levels with no button held down (INPUT_PULLUP: high)
Released == [b \in ButtonNames |-> TRUE]
PinLevels == [ButtonNames -> BOOLEAN]

\* isButtonPressed that is never re-armed by a release
Button_isButtonPressed_once(b, B, pin) ==
  LET pressed == ~pin IN
    [button |-> [B EXCEPT !.pressed = pressed,
                          !.reported = B.reported \/ pressed],
     out |-> IF ~B.reported /\ pressed
               THEN <<[button |-> ButtonMessage(b)]>>
               ELSE None]

\* isButtonPressed that sends the message in every pass the button is down
Button_isButtonPressed_repeat(b, B, pin) ==
  LET pressed == ~pin IN
    [button |-> [B EXCEPT !.pressed = pressed, !.reported = pressed],
     out |-> IF pressed THEN <<[button |-> ButtonMessage(b)]>> ELSE None]

\* isButtonPressed of button b, pin being the level digitalRead returns:
\* the button and the line sent
Button_isButtonPressed(b, B, pin) ==
  LET pressed == ~pin IN
    [button |-> [B EXCEPT !.pressed = pressed, !.reported = pressed],
     out |-> IF ~B.reported /\ pressed
               THEN <<[button |-> ButtonMessage(b)]>>
               ELSE None]

\* ---------------------------------------------------------------- loop()
\* loop() with the interrupts attached before the pacing delay
loop_next_attachFirst(p) ==
  CASE p = "detach" -> "serial"
    [] p = "serial" -> "report"
    [] p = "report" -> "buttons"
    [] p = "buttons" -> "attach"
    [] p = "attach" -> "delay"
    [] p = "delay" -> "detach"

\* the phases of one pass of loop(), in program order
loop_next(p) ==
  CASE p = "detach" -> "serial"
    [] p = "serial" -> "report"
    [] p = "report" -> "buttons"
    [] p = "buttons" -> "delay"
    [] p = "delay" -> "attach"
    [] p = "attach" -> "detach"

\* the dispatch chain of loop(): effect of one token on race, lanes, relays
dispatch(tok, mode, r, ls, rl, t) ==
  LET rcs == substring3(tok) IN
  IF rcs = RC0 THEN
    [race |-> initFalseStart(Race_init(r), mode),
     lanes |-> FalseStart_reset(ls),
     relay |-> IF fromState(r, RACE_FINISHED) THEN setPowerOff(rl) ELSE rl]
  ELSE IF rcs = RC2 THEN
    [race |-> Race_finish(r), lanes |-> ls, relay |-> rl]
  ELSE IF rcs = RC3 /\ ~isPaused(r) THEN
    [race |-> Race_pause(r), lanes |-> ls, relay |-> rl]
  ELSE IF tok = SL_1_ON THEN
    [race |-> startingLightsOn(r), lanes |-> ls, relay |-> rl]
  ELSE IF tok = SL_1_OFF THEN
    [race |-> startingLightsOff(r), lanes |-> ls, relay |-> rl]
  ELSE IF tok = GO_ON THEN
    [race |-> Race_start(r, t), lanes |-> ls, relay |-> rl]
  ELSE IF tok = GO_OFF THEN
    [race |-> Race_pause(r), lanes |-> ls, relay |-> rl]
  ELSE IF tok = PWR_ON THEN
    [race |-> r, lanes |-> ls,
     relay |-> IF isFinished(r) THEN setPowerOn(rl) ELSE rl]
  ELSE IF tok = PWR_OFF THEN
    [race |-> r, lanes |-> ls,
     relay |-> IF isFinished(r) THEN setPowerOff(rl) ELSE rl]
  ELSE IF \E n \in Lanes : tok = PWR_n_ON(n) THEN
    [race |-> r, lanes |-> ls,
     relay |-> [n \in Lanes |->
                  IF tok = PWR_n_ON(n) THEN Lane_powerOn(ls[n], rl[n])
                                       ELSE rl[n]]]
  ELSE IF \E n \in Lanes : tok = PWR_n_OFF(n) THEN
    [race |-> r, lanes |-> ls,
     relay |-> [n \in Lanes |->
                  IF tok = PWR_n_OFF(n) THEN Lane_powerOff(ls[n], rl[n])
                                        ELSE rl[n]]]
  ELSE IF rcs = DEB THEN
    [race |-> Race_debug(r, t), lanes |-> ls, relay |-> rl]
  ELSE
    [race |-> r, lanes |-> ls, relay |-> rl]

\* the transition method of Race a token makes the dispatch chain call
called(tok, r) ==
  LET rcs == substring3(tok) IN
  IF rcs = RC0 THEN "init"
  ELSE IF rcs = RC2 THEN "finish"
  ELSE IF rcs = RC3 /\ ~isPaused(r) THEN "pause"
  ELSE IF tok = GO_ON THEN "start"
  ELSE IF tok = GO_OFF THEN "pause"
  ELSE "none"

\* ------------------------------------------------------------------ state
VARIABLES
  now,        \* millis()
  race,       \* the Race instance
  lanes,      \* lane1, lane2
  relay,      \* level of each lane's relay pin
  attached,   \* lane interrupts attached (enabled)
  pc,         \* phase of loop()
  rpt,        \* lane whose reportLap comes next in the report phase
  out,        \* the line written to Serial by the last loop step
  jumped,     \* history: lane took its first pulse in Init with false start
              \*   enabled, and its reportLap has not run since
  startedMs,  \* history: time spent in Started since the last setup
  stage,      \* history: transitions since the last enabled setup:
              \*   1 Init, 2 Started from 1, 3 Paused from 2, 4 Started from 3,
              \*   0 anything else
  pending,    \* per lane: a rising edge is latched by the interrupt
              \*   controller and its service routine has not run yet
  rx,         \* bytes waiting in the Serial receive buffer
  toks,       \* history: the strings run through the dispatch chain
  rxAll,      \* history: all bytes that have arrived on Serial
  btn         \* raceStart, raceRestart, racePause: the Button instances

vars ==
  <<now, race, lanes, relay, attached, pc, rpt, out, jumped, startedMs, stage,
    pending, rx, toks, rxAll, btn>>

hist == <<jumped, startedMs, stage>>
wire == <<pending, rx, toks, rxAll, btn>>

\* the state setup() leaves, but for the Serial receive buffer
Boot ==
  /\ now = SetupMillis
  /\ race = Race_new
  /\ lanes = [n \in Lanes |-> Lane_new]
  /\ relay = setPowerOn([n \in Lanes |-> FALSE])
  /\ attached = FALSE
  /\ pc = "detach"
  /\ rpt = 1
  /\ out = None
  /\ jumped = [n \in Lanes |-> FALSE]
  /\ startedMs = 0
  /\ stage = 0
  /\ pending = [n \in Lanes |-> FALSE]
  /\ toks = None
  /\ btn = [b \in ButtonNames |-> Button_new]

Init ==
  /\ Boot
  /\ rx = None
  /\ rxAll = None

\* the clock advances
Tick ==
  /\ now + TickMs <= MaxNow
  /\ now' = now + TickMs
  /\ startedMs' = IF /\ isStarted(race)
                     /\ race.falseStartEnabled
                     /\ race.falseStartDetected
                  THEN startedMs + TickMs
                  ELSE startedMs
  /\ UNCHANGED <<race, lanes, relay, attached, pc, rpt, out, jumped, stage>>
  /\ UNCHANGED wire

\* lapDetectedN: the interrupt service routine of lane n, run for a rising
\* edge on the lane's sensor line while the lane's interrupt is attached
ISR(n) ==
  /\ attached
  /\ ~pending[n]
  /\ lanes' = [lanes EXCEPT ![n] = Lane_lapDetected(lanes[n], now)]
  /\ jumped' = [jumped EXCEPT ![n] =
                  \/ jumped[n]
                  \/ /\ lanes'[n] # lanes[n]
                     /\ lanes'[n].count = 0
                     /\ isInit(race)
                     /\ race.falseStartEnabled]
  /\ UNCHANGED <<now, race, relay, attached, pc, rpt, out, startedMs, stage>>
  /\ UNCHANGED wire

\* a rising edge on lane n's sensor line while the lane's interrupt is
\* detached: the interrupt controller keeps the edge as the lane's pending
\* flag (one flag per line; a second edge finds the flag set)
EdgeLatched(n) ==
  /\ ~attached
  /\ ~pending[n]
  /\ pending' = [pending EXCEPT ![n] = TRUE]
  /\ UNCHANGED <<now, race, lanes, relay, attached, pc, rpt, out, hist, rx, toks,
                 rxAll, btn>>

\* lapDetectedN run for the pending flag of lane n once the interrupt is
\* attached again; the flag is cleared as the routine is entered
ServeLatched(n) ==
  /\ attached
  /\ pending[n]
  /\ pending' = [pending EXCEPT ![n] = FALSE]
  /\ lanes' = [lanes EXCEPT ![n] = Lane_lapDetected(lanes[n], now)]
  /\ jumped' = [jumped EXCEPT ![n] =
                  \/ jumped[n]
                  \/ /\ lanes'[n] # lanes[n]
                     /\ lanes'[n].count = 0
                     /\ isInit(race)
                     /\ race.falseStartEnabled]
  /\ UNCHANGED <<now, race, relay, attached, pc, rpt, out, startedMs, stage,
                 rx, toks, rxAll, btn>>

\* detachAllInterrupts that leaves the interrupts attached
detachAllInterrupts_keep ==
  /\ pc = "detach"
  /\ \A n \in Lanes : ~(attached /\ pending[n])
  /\ attached' = attached
  /\ pc' = loop_next(pc)
  /\ out' = None
  /\ UNCHANGED <<now, race, lanes, relay, rpt, hist>>
  /\ UNCHANGED wire

detachAllInterrupts ==
  /\ pc = "detach"
  /\ \A n \in Lanes : ~(attached /\ pending[n])
  /\ attached' = FALSE
  /\ pc' = loop_next(pc)
  /\ out' = None
  /\ UNCHANGED <<now, race, lanes, relay, rpt, hist>>
  /\ UNCHANGED wire

\* attachAllInterrupts that does not attach the lane interrupts
attachAllInterrupts_skip ==
  /\ pc = "attach"
  /\ attached' = attached
  /\ pc' = loop_next(pc)
  /\ out' = None
  /\ UNCHANGED <<now, race, lanes, relay, rpt, hist>>
  /\ UNCHANGED wire

attachAllInterrupts ==
  /\ pc = "attach"
  /\ attached' = TRUE
  /\ pc' = loop_next(pc)
  /\ out' = None
  /\ UNCHANGED <<now, race, lanes, relay, rpt, hist>>
  /\ UNCHANGED wire

\* while (Serial3.available()): "status" calls race.debug()
Serial3Status ==
  /\ pc = "serial"
  /\ race' = Race_debug(race, now)
  /\ out' = None
  /\ UNCHANGED <<now, lanes, relay, attached, pc, rpt, hist>>
  /\ UNCHANGED wire

\* one pass of while (Serial.available()): the token between '[' and ']' is
\* read and run through the if / else-if chain; mode is the level of the
\* four switch pins, read by FalseStart::init
Run(tok, mode) ==
  /\ pc = "serial"
  /\ LET d == dispatch(tok, mode, race, lanes, relay, now) IN
       /\ race' = d.race
       /\ lanes' = d.lanes
       /\ relay' = d.relay
  /\ out' = None
  /\ LET c == called(tok, race) IN
       /\ jumped' = IF c = "init" THEN [n \in Lanes |-> FALSE] ELSE jumped
       /\ startedMs' = IF c = "init" THEN 0 ELSE startedMs
       /\ stage' = CASE c = "init" -> IF mode > 7 THEN 1 ELSE 0
                     [] c = "start" -> IF stage = 1 THEN 2
                                       ELSE IF stage = 3 THEN 4 ELSE 0
                     [] c = "pause" -> IF stage = 2 THEN 3 ELSE 0
                     [] c = "finish" -> 0
                     [] OTHER -> stage
  /\ UNCHANGED <<now, attached, pc, rpt>>

\* a token the host sent, framed, is read and dispatched
Dispatch(tok, mode) ==
  /\ Run(tok, mode)
  /\ UNCHANGED wire

\* one pass of while (Serial.available()) over the bytes in the receive
\* buffer: skip to '[', read to ']', run what was read through the chain
ReadToken(mode) ==
  /\ rx # None
  /\ LET skipped == readStringUntil(rx, "[")
         output == readStringUntil(skipped.rest, "]")
     IN /\ Run(output.str, mode)
        /\ rx' = output.rest
        /\ toks' = Append(toks, output.str)
  /\ UNCHANGED <<pending, rxAll, btn>>

\* Serial.available() is 0: the while loop is left
SerialDone ==
  /\ pc = "serial"
  /\ rx = None
  /\ pc' = loop_next(pc)
  /\ rpt' = 1
  /\ out' = None
  /\ UNCHANGED <<now, race, lanes, relay, attached, hist>>
  /\ UNCHANGED wire

\* laneN.reportLap(), lanes in order
ReportLap ==
  /\ pc = "report"
  /\ LET res == Lane_reportLap(rpt, lanes[rpt], relay[rpt], race, now) IN
       /\ lanes' = [lanes EXCEPT ![rpt] = res.lane]
       /\ relay' = [relay EXCEPT ![rpt] = res.pin]
       /\ race' = res.race
       /\ out' = res.out
  /\ IF rpt = LastLane
       THEN pc' = loop_next(pc) /\ rpt' = 1
       ELSE pc' = pc /\ rpt' = rpt + 1
  /\ jumped' = [jumped EXCEPT ![rpt] = FALSE]
  /\ UNCHANGED <<now, attached, startedMs, stage>>
  /\ UNCHANGED wire

\* raceStart / raceRestart / racePause .isButtonPressed(), pins being the
\* levels of the three button pins
ReadButtons(pins) ==
  /\ pc = "buttons"
  /\ LET res == [b \in ButtonNames |->
                   Button_isButtonPressed(b, btn[b], pins[b])]
     IN /\ btn' = [b \in ButtonNames |-> res[b].button]
        /\ out' = res[ButtonOrder[1]].out \o res[ButtonOrder[2]].out
                     \o res[ButtonOrder[3]].out
  /\ pc' = loop_next(pc)
  /\ UNCHANGED <<now, race, lanes, relay, attached, rpt, hist>>
  /\ UNCHANGED <<pending, rx, toks, rxAll>>

\* the buttons read with none held down
Buttons == ReadButtons(Released)

\* delay(3)
Delay ==
  /\ pc = "delay"
  /\ pc' = loop_next(pc)
  /\ out' = None
  /\ UNCHANGED <<now, race, lanes, relay, attached, rpt, hist>>
  /\ UNCHANGED wire

Next ==
  \/ Tick
  \/ \E n \in Cars : ISR(n)
  \/ detachAllInterrupts
  \/ Serial3Status
  \/ \E tok \in Tokens, mode \in ModeSwitch : Dispatch(tok, mode)
  \/ SerialDone
  \/ ReportLap
  \/ Buttons
  \/ Delay
  \/ attachAllInterrupts

Spec == Init /\ [][Next]_vars

\* ---------------------------------------------- edges while detached
\* The tokens of a plain race, enough to move the race and reset the lanes
\* while edges are latched.
LiveTokens == {RC0, GO_ON}

\* loop() with edges arriving at any time: while attached an edge is served
\* at once (ISR), while detached it is latched (EdgeLatched) and served when
\* the interrupts are attached again (ServeLatched), before the next pass
NextLive ==
  \/ Tick
  \/ \E n \in Cars : ISR(n)
  \/ \E n \in Cars : EdgeLatched(n)
  \/ \E n \in Cars : ServeLatched(n)
  \/ detachAllInterrupts
  \/ \E tok \in LiveTokens, mode \in ModeSwitch : Dispatch(tok, mode)
  \/ SerialDone
  \/ ReportLap
  \/ Buttons
  \/ Delay
  \/ attachAllInterrupts

\* loop() runs again and again, the host's input is finite, and a pending
\* interrupt is served as soon as it is enabled
Fairness ==
  /\ WF_vars(detachAllInterrupts)
  /\ WF_vars(SerialDone)
  /\ WF_vars(ReportLap)
  /\ WF_vars(Buttons)
  /\ WF_vars(Delay)
  /\ WF_vars(attachAllInterrupts)
  /\ \A n \in Cars : WF_vars(ServeLatched(n))

SpecLive == Init /\ [][NextLive]_vars /\ Fairness

\* ------------------------------------------------- the penalty running out
\* The tokens of a race with a track call: setup, green on, green off.
ExpiryTokens == {RC0, GO_ON, GO_OFF}

NextExpiry ==
  \/ Tick
  \/ \E n \in Cars : ISR(n)
  \/ detachAllInterrupts
  \/ \E tok \in ExpiryTokens, mode \in ModeSwitch : Dispatch(tok, mode)
  \/ SerialDone
  \/ ReportLap
  \/ Buttons
  \/ Delay
  \/ attachAllInterrupts

\* loop() runs again and again, the host's input is finite, and millis()
\* goes on counting (up to the end of the explored window)
FairnessExpiry ==
  /\ WF_vars(detachAllInterrupts)
  /\ WF_vars(SerialDone)
  /\ WF_vars(ReportLap)
  /\ WF_vars(Buttons)
  /\ WF_vars(Delay)
  /\ WF_vars(attachAllInterrupts)
  /\ WF_vars(Tick)

SpecExpiry == Init /\ [][NextExpiry]_vars /\ FairnessExpiry

\* ------------------------------------------------- resume, any word values
\* Values of an unsigned long: both ends of the range, the middle, and
\* values of the size the clock has in a race.
Words ==
  {0, 1, TickMs, SetupMillis, laneProtectionTime, WordMod \div 2 - 1,
   WordMod \div 2, Sentinel - 1, Sentinel}

\* a paused race about to read SL061, with any clock value and any penalty
\* begin and served values
InitResume ==
  /\ now \in Words
  /\ race \in {[Race_new EXCEPT !.state = RACE_PAUSED,
                                !.previousState = p,
                                !.falseStartEnabled = TRUE,
                                !.falseStartDetected = d,
                                !.penaltyBeginMillis = b,
                                !.penaltyServedMillis = s,
                                !.penaltyTimeMillis = delayMillis[4]] :
                  p \in {RACE_INIT, RACE_STARTED}, d \in BOOLEAN,
                  b \in Words, s \in Words}
  /\ lanes = [n \in Lanes |-> Lane_new]
  /\ relay = setPowerOff([n \in Lanes |-> FALSE])
  /\ attached = FALSE
  /\ pc = "serial"
  /\ rpt = 1
  /\ out = None
  /\ jumped = [n \in Lanes |-> FALSE]
  /\ startedMs = 0
  /\ stage = 0
  /\ pending = [n \in Lanes |-> FALSE]
  /\ toks = None
  /\ btn = [b \in ButtonNames |-> Button_new]
  /\ rx = None
  /\ rxAll = None

NextResume == \E mode \in ModeSwitch : Dispatch(GO_ON, mode)

SpecResume == InitResume /\ [][NextResume]_vars

\* ------------------------------------------------- pulses, any lane values
\* Lanes as a race leaves them between two passes of loop(): the last lap
\* reported, no lap yet or the start line crossed, with or without a latch.
LaneValues ==
  {L \in [start : {0, SetupMillis}, finish : {0, SetupMillis, SetupMillis + TickMs},
          count : {-1, 0}, reported : {TRUE}, falseStart : BOOLEAN] :
     /\ L.finish = 0 => (L.start = 0 /\ L.count = -1)
     /\ L.finish # 0 => L.start < L.finish}

\* races set up with the false start function enabled
RaceValues ==
  LET r0 == initFalseStart(Race_init(Race_new), 11)
      r1 == Race_start(r0, SetupMillis + TickMs)
  IN {r0, r1, Race_pause(r1), setFalseStartDetected(r1)}

\* the interrupts just attached, lanes, relays and race at any of the values
InitPulse ==
  /\ now = SetupMillis + TickMs
  /\ race \in RaceValues
  /\ lanes \in [Lanes -> LaneValues]
  /\ relay \in [Lanes -> BOOLEAN]
  /\ attached = TRUE
  /\ pc = "detach"
  /\ rpt = 1
  /\ out = None
  /\ jumped = [n \in Lanes |-> FALSE]
  /\ startedMs = 0
  /\ stage = 0
  /\ pending = [n \in Lanes |-> FALSE]
  /\ toks = None
  /\ btn = [b \in ButtonNames |-> Button_new]
  /\ rx = None
  /\ rxAll = None

NextPulse ==
  \/ Tick
  \/ \E n \in Lanes : ISR(n)

SpecPulse == InitPulse /\ [][NextPulse]_vars

\* --------------------------------------------- laps and setups, any lanes
\* loop() entered in a race just set up with the false start function
\* enabled, all relays on, the lanes at any of the values; pulses on every
\* lane, setups at any time
InitLaps ==
  /\ InitPulse
  /\ isInit(race)
  /\ relay = setPowerOn(relay)

NextLaps ==
  \/ Tick
  \/ \E n \in Lanes : ISR(n)
  \/ detachAllInterrupts
  \/ \E mode \in ModeSwitch : Dispatch(RC0, mode)
  \/ SerialDone
  \/ ReportLap
  \/ Buttons
  \/ Delay
  \/ attachAllInterrupts

SpecLaps == InitLaps /\ [][NextLaps]_vars

\* ------------------------------------------------------- the button panel
\* The tokens that move the race through its four states.
PanelTokens == {RC0, RC2, GO_ON, GO_OFF}

\* loop() with the buttons pressed and released at any time
NextPanel ==
  \/ Tick
  \/ detachAllInterrupts
  \/ \E tok \in PanelTokens, mode \in ModeSwitch : Dispatch(tok, mode)
  \/ SerialDone
  \/ ReportLap
  \/ \E pins \in PinLevels : ReadButtons(pins)
  \/ Delay
  \/ attachAllInterrupts

SpecPanel == Init /\ [][NextPanel]_vars

\* the same with loop() and the clock fair
SpecCycle == Init /\ [][NextPanel]_vars /\ FairnessExpiry

\* ------------------------------------------------- bytes on the Serial port
\* The pieces the inbound byte streams are made of.
Chunks ==
  {<<"[">>, <<"]">>, <<"g", "a", "r", "b", "a", "g", "e">>,
   <<"m", "o", "r", "e">>, PWR_n_ON(1), PWR_n_OFF(1)}

RECURSIVE Concat(_)
Concat(cs) == IF cs = <<>> THEN <<>> ELSE Head(cs) \o Concat(Tail(cs))

Streams ==
  {Concat(cs) : cs \in UNION {[1..k -> Chunks] : k \in 0..MaxChunks}}

\* loop() entered with bytes in the receive buffer
InitFrame ==
  /\ Boot
  /\ rx \in Streams
  /\ rxAll = rx

NextFrame ==
  \/ detachAllInterrupts
  \/ \E mode \in ModeSwitch : ReadToken(mode)
  \/ SerialDone
  \/ ReportLap
  \/ Buttons
  \/ Delay
  \/ attachAllInterrupts

SpecFrame == InitFrame /\ [][NextFrame]_vars

TypeOK ==
  /\ now \in SetupMillis..MaxNow
  /\ pc \in {"detach", "serial", "report", "buttons", "delay", "attach"}
  /\ rpt \in Lanes
  /\ attached \in BOOLEAN

\* ------------------------------------------------------------- properties

\* C1: with false start enabled, a lane whose accepted pulse brought its
\* count to 0 while the race was Init has, after its next reportLap, its
\* latch set, its relay off and the race fuse set, whatever was dispatched
\* in between.
C1_FalseStartLatchedAtNextReport ==
  (pc = "report" /\ jumped[rpt]) =>
    LET res == Lane_reportLap(rpt, lanes[rpt], relay[rpt], race, now) IN
      res.lane.falseStart /\ ~res.pin /\ res.race.falseStartDetected

\* C2: in every reachable state a lane whose false-start latch is set has
\* its relay off.
C2_LatchedLaneHasNoPower ==
  \A n \in Lanes : lanes[n].falseStart => ~relay[n]

\* C3: PW0n1 on a latched lane leaves the relay and the latch as they are,
\* on an unlatched lane it switches the relay on; PW0n1 and PW0n0 twice
\* give the same state as once; PW0n0 switches the relay off.
C3_PowerOnGuardedAndIdempotent ==
  \A n \in Lanes :
    LET on1 == dispatch(PWR_n_ON(n), 0, race, lanes, relay, now)
        on2 == dispatch(PWR_n_ON(n), 0, on1.race, on1.lanes, on1.relay, now)
        off1 == dispatch(PWR_n_OFF(n), 0, race, lanes, relay, now)
        off2 == dispatch(PWR_n_OFF(n), 0, off1.race, off1.lanes, off1.relay, now)
    IN /\ on1.lanes = lanes /\ on1.race = race
       /\ lanes[n].falseStart => on1.relay = relay
       /\ ~lanes[n].falseStart => on1.relay = [relay EXCEPT ![n] = TRUE]
       /\ on2 = on1
       /\ off1.lanes = lanes /\ off1.race = race
       /\ off1.relay = [relay EXCEPT ![n] = FALSE]
       /\ off2 = off1

C3_Witness ==
  pc = "serial" /\ lanes[1].falseStart /\ ~relay[1] /\ relay[2]

\* C4: after a false start was detected, on the path setup, start from Init,
\* pause, resume, the penalty counts as served only once the time spent in
\* Started exceeds penaltyTimeMillis, however long the pause lasted; start 0,
\* pause 500, resume 10000 with a 2000 ms penalty is served after 11500.
C4_Example ==
  LET e0 == setFalseStartDetected(initFalseStart(Race_init(Race_new), 10))
      e1 == Race_start(e0, 0)
      e2 == getPenaltyServedMillis(e1, 500)
      e3 == Race_pause(e2)
      e4 == Race_start(getPenaltyServedMillis(e3, 2001), 10000)
  IN /\ e0.penaltyTimeMillis = 2000
     /\ e2.penaltyServedMillis = 500
     /\ ~isFalseStartPenaltyServed(e3, 2001)
     /\ ~isFalseStartPenaltyServed(e4, 10000)
     /\ ~isFalseStartPenaltyServed(e4, 11500)
     /\ isFalseStartPenaltyServed(e4, 11501)

C4_PenaltyPauseResume ==
  /\ (stage \in 1..4 /\ race.falseStartDetected
        /\ isFalseStartPenaltyServed(race, now))
       => startedMs > race.penaltyTimeMillis
  /\ C4_Example

C4_Witness ==
  /\ stage = 4 /\ race.falseStartDetected /\ lanes[1].falseStart
  /\ startedMs > 0 /\ startedMs = race.penaltyServedMillis
  /\ ~isFalseStartPenaltyServed(race, now)
  /\ now >= laneProtectionTime + startedMs + TickMs

\* C5: a latched lane is released by reportLap only after the race has spent
\* more than penaltyTimeMillis in Started since the last setup.
C5_ReleaseOnlyAfterPenaltyInStarted ==
  pc = "report" =>
    LET res == Lane_reportLap(rpt, lanes[rpt], relay[rpt], race, now) IN
      (lanes[rpt].falseStart /\ ~res.lane.falseStart)
        => startedMs > race.penaltyTimeMillis

\* C6: a pulse less than laneProtectionTime after the lane's finish leaves
\* the lane as it is; of two pulses less than the window apart at most one
\* increments count.
C6_ProtectionWindow ==
  \A n \in Lanes :
    LET L == lanes[n]
        L1 == Lane_lapDetected(L, now)
    IN /\ Sub32(now, L.finish) < laneProtectionTime => L1 = L
       /\ \A k \in 0..2 :
            k * TickMs < laneProtectionTime =>
              Lane_lapDetected(L1, now + k * TickMs).count <= L.count + 1

C6_Witness ==
  /\ attached /\ lanes[1].count = 0 /\ ~lanes[1].reported
  /\ now > lanes[1].finish
  /\ Sub32(now, lanes[1].finish) < laneProtectionTime

\* C7 as stated: the first pulse of a lane after boot (finish = 0) is
\* accepted whatever the clock value.
C7_FirstPulseAlwaysAccepted ==
  \A n \in Cars :
    (attached /\ lanes[n].finish = 0) =>
      Lane_lapDetected(lanes[n], now).count = lanes[n].count + 1

\* C7 amended: the first pulse of a lane after boot (finish = 0) is accepted
\* exactly when the clock has reached laneProtectionTime; before that it is
\* discarded.
C7_FirstPulseAcceptedOnceWindowElapsed ==
  \A n \in Lanes :
    lanes[n].finish = 0 =>
      /\ lanes[n].start = 0 /\ lanes[n].count = -1
      /\ (now >= laneProtectionTime) <=>
           (Lane_lapDetected(lanes[n], now).count = lanes[n].count + 1)
      /\ (now < laneProtectionTime) <=>
           (Lane_lapDetected(lanes[n], now) = lanes[n])

C7_Witness ==
  attached /\ lanes[1].finish = 0 /\ now < laneProtectionTime

\* C8: of two reportLap calls in a row on a lane the first sends at most one
\* line and the second sends nothing and leaves start, finish, count and
\* reported as they are.
C8_ReportIdempotent ==
  \A n \in Lanes : \A k \in 0..1 :
    LET r1 == Lane_reportLap(n, lanes[n], relay[n], race, now)
        r2 == Lane_reportLap(n, r1.lane, r1.pin, r1.race, now + k * TickMs)
    IN /\ Len(r1.out) <= 1
       /\ r2.out = None
       /\ r2.lane.start = r1.lane.start
       /\ r2.lane.finish = r1.lane.finish
       /\ r2.lane.count = r1.lane.count
       /\ r2.lane.reported = r1.lane.reported

C8_Witness ==
  pc = "report" /\ rpt = 1 /\ ~lanes[1].reported /\ lanes[1].count >= 0

\* C9 as stated: the interrupts are off during command processing and the
\* lap reports and are attached again before the pacing delay, which runs
\* with the interrupts on.
C9_DelayRunsWithInterruptsOn ==
  /\ pc \in {"serial", "report"} => ~attached
  /\ pc = "delay" => attached

\* C9 amended: the interrupts are detached before command processing, stay
\* detached through command processing, the lap reports, the buttons and the
\* pacing delay, and are attached again right after the pacing delay, as the
\* last step of the pass.
C9_InterruptsOffThroughDelay ==
  /\ pc \in {"serial", "report", "buttons", "delay", "attach"} => ~attached
  /\ attached => pc = "detach"
  /\ loop_next("detach") = "serial"
  /\ loop_next("delay") = "attach"
  /\ loop_next("attach") = "detach"

C9_Witness ==
  pc = "delay" /\ ~attached /\ now > SetupMillis /\ lanes[1].count = 0

\* C10: lapDetected never runs between the start of command processing and
\* the end of the lap reports, and the line a report sent is computed from
\* the (start, finish) pair the lane still holds.
C10_NoPulseWhileDraining ==
  /\ [](pc \in {"serial", "report"} => ~attached)
  /\ [](out # None =>
          out[1].ms = Sub32(lanes[out[1].lane].finish, lanes[out[1].lane].start))
  /\ [][(\E n \in Lanes : lanes'[n].finish # lanes[n].finish)
          => (attached /\ pc = "detach" /\ pc' = "detach")]_vars

C10_Witness ==
  pc = "report" /\ rpt = 2 /\ out # None /\ out[1].lane = 1

\* C11: a rising edge that arrives while the lane interrupts are detached is
\* not lost: its service routine runs once the interrupts are attached at
\* the end of that pass, and an edge outside the protection window then
\* increments the lane's count.
C11_LatchedEdgeIsServed ==
  /\ \A n \in Cars : pending[n] ~> ~pending[n]
  /\ [][\A n \in Cars :
          /\ pending[n] /\ ~pending'[n] =>
               /\ attached /\ pc = "detach"
               /\ lanes'[n] = Lane_lapDetected(lanes[n], now)
               /\ Sub32(now, lanes[n].finish) >= laneProtectionTime =>
                    lanes'[n].count = lanes[n].count + 1
          /\ pending[n] /\ pending'[n]
               /\ Sub32(now, lanes[n].finish) >= laneProtectionTime =>
                    Sub32(now', lanes'[n].finish) >= laneProtectionTime]_vars

C11_Witness ==
  /\ pending[1] /\ ~attached /\ pc = "report"
  /\ Sub32(now, lanes[1].finish) >= laneProtectionTime

\* C12: for every mode 0..15 initFalseStart sets falseStartEnabled to
\* mode > 7; for every mode 8..15 it sets the penalty to (mode - 8) * 1000 ms,
\* the served time to 0 and the race fuse to false; mode 11 gives 3000 ms.
C12_ModeDecoding ==
  pc = "serial" =>
    /\ \A mode \in Modes :
         LET r == initFalseStart(race, mode) IN
           /\ r.falseStartEnabled = (mode > 7)
           /\ mode > 7 =>
                /\ r.penaltyTimeMillis = (mode - 8) * 1000
                /\ r.penaltyServedMillis = 0
                /\ ~r.falseStartDetected
    /\ LET r == initFalseStart(race, 11) IN
         r.falseStartEnabled /\ r.penaltyTimeMillis = 3000

C12_Witness ==
  /\ pc = "serial" /\ race.falseStartDetected
  /\ race.penaltyServedMillis > 0 /\ race.penaltyTimeMillis = 3000

\* C13: the race boots Finished; from Finished, init() then start() leaves
\* state Started with previousState Init, and pause() after that leaves
\* state Paused with fromState(Started) true.
C13_Lifecycle ==
  /\ isFinished(Race_new)
  /\ (pc = "serial" /\ isFinished(race)) =>
       LET a == Race_start(Race_init(race), now)
           b == Race_pause(a)
           da == dispatch(GO_ON, 0,
                          dispatch(RC0, 0, race, lanes, relay, now).race,
                          lanes, relay, now).race
           db == dispatch(GO_OFF, 0, da, lanes, relay, now).race
       IN /\ isStarted(a) /\ a.previousState = RACE_INIT
          /\ isPaused(b) /\ fromState(b, RACE_STARTED)
          /\ isStarted(da) /\ da.previousState = RACE_INIT
          /\ isPaused(db) /\ fromState(db, RACE_STARTED)
  /\ stage = 2 => isStarted(race) /\ race.previousState = RACE_INIT
  /\ stage = 3 => isPaused(race) /\ fromState(race, RACE_STARTED)

C13_Witness ==
  /\ stage = 3 /\ isPaused(race) /\ fromState(race, RACE_STARTED)
  /\ now > SetupMillis

\* C14: after init(), start(), pause() or finish() previousState is the
\* value state had right before that call, also when calls follow one
\* another; no other operation changes state or previousState.
C14_PreviousStateIsLastState ==
  /\ [](LET T == <<Race_init(race), Race_start(race, now),
                   Race_pause(race), Race_finish(race)>>
             same(a, b) == a.state = b.state
                             /\ a.previousState = b.previousState
        IN /\ \A i \in 1..4 :
                /\ T[i].previousState = race.state
                /\ Race_init(T[i]).previousState = T[i].state
                /\ Race_start(T[i], now).previousState = T[i].state
                /\ Race_pause(T[i]).previousState = T[i].state
                /\ Race_finish(T[i]).previousState = T[i].state
           /\ same(getPenaltyServedMillis(race, now), race)
           /\ same(Race_debug(race, now), race)
           /\ same(setFalseStartDetected(race), race)
           /\ same(startingLightsOn(race), race)
           /\ same(startingLightsOff(race), race)
           /\ \A mode \in Modes : same(initFalseStart(race, mode), race))
  /\ [][(race'.state # race.state
            \/ race'.previousState # race.previousState)
          => (pc = "serial" /\ race'.previousState = race.state)]_vars

C14_Witness ==
  pc = "serial" /\ isFinished(race) /\ race.previousState = RACE_PAUSED

\* C15: whenever RC0 is dispatched while the race state is Finished, the
\* very first RC0 after boot included, every lane relay is off afterwards.
C15_SetupFromFinishedPowersDown ==
  (pc = "serial" /\ isFinished(race)) =>
    \A mode \in ModeSwitch : \A n \in Lanes :
      ~dispatch(RC0, mode, race, lanes, relay, now).relay[n]

\* C16: after a dispatched token whose first three characters are RC0, from
\* any state, the race is Init and every lane has count -1, its latch clear
\* and reported true.
C16_SetupResetsEveryLane ==
  pc = "serial" =>
    \A tok \in {RC0, RC0 \o <<"$", "1">>} : \A mode \in ModeSwitch :
      LET d == dispatch(tok, mode, race, lanes, relay, now) IN
        /\ isInit(d.race)
        /\ called(tok, race) = "init"
        /\ \A n \in Lanes :
             /\ d.lanes[n].count = -1
             /\ ~d.lanes[n].falseStart
             /\ d.lanes[n].reported

C16_Witness ==
  /\ pc = "serial" /\ isPaused(race)
  /\ lanes[1].falseStart /\ lanes[1].count = 0

\* C17: the race fuse falseStartDetected is false right after every setup,
\* whatever the mode read at that setup and whatever happened before; it
\* becomes true only when a lane is latched.
C17_FuseClearAfterSetup ==
  /\ pc = "serial" =>
       \A mode \in ModeSwitch :
         ~dispatch(RC0, mode, race, lanes, relay, now).race.falseStartDetected
  /\ pc = "report" =>
       LET res == Lane_reportLap(rpt, lanes[rpt], relay[rpt], race, now) IN
         (res.race.falseStartDetected /\ ~race.falseStartDetected)
           => (res.lane.falseStart /\ ~lanes[rpt].falseStart)

\* the substrings between each '[' and the ']' that follows it
RECURSIVE Between(_)
Between(s) ==
  LET open == {i \in 1..Len(s) : s[i] = "["} IN
    IF open = {} THEN <<>>
    ELSE LET i == CHOOSE k \in open : \A j \in open : k <= j
             close == {j \in (i + 1)..Len(s) : s[j] = "]"}
         IN IF close = {} THEN <<>>
            ELSE LET j == CHOOSE k \in close : \A m \in close : k <= m IN
                   <<SubSeq(s, i + 1, j - 1)>>
                     \o Between(SubSeq(s, j + 1, Len(s)))

TheExample ==
  <<"g", "a", "r", "b", "a", "g", "e", "[">> \o PWR_n_ON(1)
    \o <<"]", "m", "o", "r", "e">>

\* C18: the tokens dispatched from a byte stream are exactly the substrings
\* between each '[' and the following ']' (a pass over bytes that read as
\* an empty string is not counted as a token); from "garbage[PW011]more"
\* that is the one token PW011.
C18_Framing ==
  rx = None =>
    /\ SelectSeq(toks, LAMBDA t : t # <<>>)
         = SelectSeq(Between(rxAll), LAMBDA t : t # <<>>)
    /\ rxAll = TheExample =>
         SelectSeq(toks, LAMBDA t : t # <<>>) = <<PWR_n_ON(1)>>

\* C19: PW0n1 switches lane n's relay on exactly when lane n's own latch is
\* clear; on a latched lane it changes nothing for that lane; the latch of
\* another lane has no influence and other lanes' relays stay as they are.
C19_LanePowerOnOwnLatchOnly ==
  pc = "serial" =>
    \A n \in Lanes :
      LET d == dispatch(PWR_n_ON(n), 0, race, lanes, relay, now) IN
        /\ ~lanes[n].falseStart => d.relay[n]
        /\ lanes[n].falseStart => d.relay[n] = relay[n]
        /\ d.lanes = lanes
        /\ \A m \in Lanes \ {n} :
             /\ d.relay[m] = relay[m]
             /\ LET other == [lanes EXCEPT ![m].falseStart = ~@] IN
                  dispatch(PWR_n_ON(n), 0, race, other, relay, now).relay[n]
                    = d.relay[n]

C19_Witness ==
  /\ pc = "serial" /\ lanes[1].falseStart /\ ~lanes[2].falseStart
  /\ ~relay[1] /\ ~relay[2]

C21_ButtonDrivesRace ==
  [][/\ (\E b \in {"raceStart", "raceRestart"} :
            ~btn[b].pressed /\ btn'[b].pressed) => isStarted(race')
     /\ (~btn["racePause"].pressed /\ btn'["racePause"].pressed)
          => isPaused(race')]_vars

\* C21 amended: a press of the start, restart or pause button sends the
\* button's message ([BT01], [BT02], [BT03]) to the host, once per press,
\* in the pass of loop() that first reads the button down, and calls
\* neither start() nor pause(): race, lanes and relays stay as they are.
C21_ButtonPressIsReportedToHost ==
  [][pc = "buttons" =>
       /\ race' = race /\ lanes' = lanes /\ relay' = relay
       /\ \A b \in ButtonNames :
            (\E i \in 1..Len(out') : out'[i] = [button |-> ButtonMessage(b)])
              <=> (~btn[b].pressed /\ btn'[b].pressed)
       /\ Len(out') = Cardinality({b \in ButtonNames :
                                     ~btn[b].pressed /\ btn'[b].pressed})]_vars

C21_Witness ==
  /\ pc = "delay" /\ isInit(race) /\ btn["raceStart"].pressed
  /\ out = <<[button |-> BUTTON_RACE_START]>>

\* strings outside the command vocabulary: the empty string, cut and
\* lengthened commands, commands in lower case, unused numbers
AlienTokens ==
  {<<>>, Unknown, <<"R", "C">>, <<"R", "C", "1">>, <<"r", "c", "2">>,
   <<"d", "e", "b">>, <<"D", "E">>, <<" ", "R", "C", "0">>,
   SubSeq(GO_ON, 1, 4), GO_ON \o <<"1">>, PWR_ON \o <<"0">>,
   <<"P", "W", "0", "7", "1">>, <<"P", "W", "0", "1">>,
   <<"S", "L", "0", "8", "1">>, <<"p", "w", "0", "0", "0">>}

\* C22: a token outside the command vocabulary is ignored: after its
\* dispatch the race (state, previousState, penalty fields), every lane and
\* every relay are as before, and no transition method was called.
C22_UnknownTokenIgnored ==
  [](pc = "serial" =>
      \A tok \in AlienTokens : \A mode \in ModeSwitch :
        /\ dispatch(tok, mode, race, lanes, relay, now)
             = [race |-> race, lanes |-> lanes, relay |-> relay]
        /\ called(tok, race) = "none")

C22_Witness ==
  /\ pc = "serial" /\ isStarted(race) /\ race.falseStartDetected
  /\ lanes[1].falseStart /\ now > race.penaltyBeginMillis
  /\ race.penaltyServedMillis = 0

\* what may follow the three characters of a race-clock token
ClockSuffixes ==
  {<<>>, <<"E", "0", "0", ":", "0", "0", ":", "0", "0">>, <<"1">>, GO_ON}

\* C23 as stated: every token that starts with RC0 performs the setup, with
\* RC2 finish(), with RC3 pause(), whatever follows the three characters.
C23_ClockPrefixOnly ==
  pc = "serial" =>
    \A sfx \in ClockSuffixes : \A mode \in ModeSwitch :
      LET d0 == dispatch(RC0 \o sfx, mode, race, lanes, relay, now)
          d2 == dispatch(RC2 \o sfx, mode, race, lanes, relay, now)
          d3 == dispatch(RC3 \o sfx, mode, race, lanes, relay, now)
      IN /\ d0.race = initFalseStart(Race_init(race), mode)
         /\ d0.lanes = FalseStart_reset(lanes)
         /\ d2 = [race |-> Race_finish(race), lanes |-> lanes, relay |-> relay]
         /\ d3 = [race |-> Race_pause(race), lanes |-> lanes, relay |-> relay]

\* C23 amended: every token that starts with RC0 performs the setup and
\* every token that starts with RC2 finish(), whatever follows; a token
\* that starts with RC3 performs pause() unless the race is Paused already,
\* and then it changes nothing (previousState stays as it is).
C23_ClockPrefixPauseOnce ==
  [](pc = "serial" =>
      \A sfx \in ClockSuffixes : \A mode \in ModeSwitch :
        LET d0 == dispatch(RC0 \o sfx, mode, race, lanes, relay, now)
            d2 == dispatch(RC2 \o sfx, mode, race, lanes, relay, now)
            d3 == dispatch(RC3 \o sfx, mode, race, lanes, relay, now)
        IN /\ d0.race = initFalseStart(Race_init(race), mode)
           /\ d0.lanes = FalseStart_reset(lanes)
           /\ d2 = [race |-> Race_finish(race), lanes |-> lanes, relay |-> relay]
           /\ d3 = [race |-> IF isPaused(race) THEN race ELSE Race_pause(race),
                    lanes |-> lanes, relay |-> relay]
           /\ called(RC0 \o sfx, race) = "init"
           /\ called(RC2 \o sfx, race) = "finish"
           /\ called(RC3 \o sfx, race)
                = (IF isPaused(race) THEN "none" ELSE "pause"))

C23_Witness ==
  /\ pc = "serial" /\ isPaused(race) /\ race.previousState = RACE_STARTED
  /\ lanes[1].count = 0

\* C24 as stated: a lap waiting to be reported leaves that state only by
\* its record being sent, value finish - start, a setup in between included.
C24_EveryAcceptedPulseReported ==
  [][\A n \in Lanes :
       (~lanes[n].reported /\ lanes'[n].reported) =>
         out' = <<[lane |-> n,
                   ms |-> Sub32(lanes[n].finish, lanes[n].start)]>>]_vars

\* C24 amended: an accepted pulse marks the lane unreported with start the
\* old finish and finish the clock; the lane stays so until either its next
\* reportLap, which sends exactly one record for the lane, value finish -
\* start of the last accepted pulse, or a setup, whose reset marks the lane
\* reported without a record; one of the two comes; no record is sent for
\* a lane that is marked reported.
C24_PendingLapReportedOrReset ==
  /\ \A n \in Cars : ~lanes[n].reported ~> lanes[n].reported
  /\ [][\A n \in Lanes :
          /\ lanes'[n].count = lanes[n].count + 1 =>
               /\ ~lanes'[n].reported
               /\ lanes'[n].start = lanes[n].finish
               /\ lanes'[n].finish = now
          /\ (~lanes[n].reported /\ lanes'[n].reported) =>
               \/ /\ pc = "report" /\ rpt = n
                  /\ out' = <<[lane |-> n,
                               ms |-> Sub32(lanes[n].finish, lanes[n].start)]>>
                  /\ lanes'[n].finish = lanes[n].finish
                  /\ lanes'[n].start = lanes[n].start
               \/ /\ pc = "serial" /\ isInit(race')
                  /\ lanes'[n] = Lane_reset(lanes[n])
                  /\ out' = None
          /\ (pc = "report" /\ <<pc, rpt>>' # <<pc, rpt>> /\ rpt = n
                /\ lanes[n].reported) => out' = None
          /\ (pc = "report" /\ rpt # n) => lanes'[n] = lanes[n]]_vars

C24_Witness ==
  /\ pc = "report" /\ rpt = 2 /\ lanes[1].reported /\ lanes[1].count = 0
  /\ out = <<[lane |-> 1, ms |-> Sub32(lanes[1].finish, lanes[1].start)]>>
  /\ isInit(race)

\* C25: reportLap clears a lane's latch and restores its power only while
\* the race is Started; while it is Init, Paused or Finished no latched lane
\* is released, whatever the clock and whatever was dispatched before.
C25_ReleaseOnlyWhileStarted ==
  pc = "report" =>
    LET res == Lane_reportLap(rpt, lanes[rpt], relay[rpt], race, now) IN
      /\ (lanes[rpt].falseStart /\ ~res.lane.falseStart) => isStarted(race)
      /\ (lanes[rpt].falseStart /\ ~relay[rpt] /\ res.pin) => isStarted(race)

\* C26: a latched lane in a race started from Init or resumed from Paused,
\* with the clock able to reach the end of the penalty, is released (latch
\* cleared, relay on) unless the race leaves Started; reportLap releases
\* the lane at the first call at which millis() - penaltyBeginMillis
\* exceeds penaltyTimeMillis and not before.
C26_PenaltyExpires ==
  /\ \A n \in Cars :
       (/\ lanes[n].falseStart /\ isStarted(race)
        /\ race.previousState \in {RACE_INIT, RACE_PAUSED}
        /\ race.penaltyBeginMillis + race.penaltyTimeMillis + TickMs <= MaxNow)
         ~> ((~lanes[n].falseStart /\ relay[n]) \/ ~isStarted(race))
  /\ []((/\ pc = "report" /\ lanes[rpt].falseStart /\ isStarted(race)
         /\ race.previousState \in {RACE_INIT, RACE_PAUSED}) =>
         LET res == Lane_reportLap(rpt, lanes[rpt], relay[rpt], race, now) IN
           IF Sub32(now, race.penaltyBeginMillis) > race.penaltyTimeMillis
             THEN ~res.lane.falseStart /\ res.pin
             ELSE res.lane.falseStart /\ res.pin = relay[rpt])

C26_Witness ==
  /\ stage = 4 /\ ~lanes[1].falseStart /\ relay[1] /\ lanes[1].count = 0
  /\ race.falseStartDetected
  /\ race.penaltyServedMillis > race.penaltyTimeMillis

\* C27: on resume from Paused the begin instant the code computes,
\* begin + (now - begin) - served, equals now - served in unsigned long
\* arithmetic for all values of begin, now and served, begin = 0xFFFFFFFF
\* (Init, Paused, Started) included.
C27_RebaseIsNowMinusServed ==
  [][(isPaused(race) /\ isStarted(race')) =>
       /\ race'.penaltyBeginMillis = (now - race.penaltyServedMillis) % WordMod
       /\ race'.penaltyServedMillis = race.penaltyServedMillis
       /\ race'.previousState = RACE_PAUSED]_vars

C27_Witness ==
  /\ isStarted(race) /\ race.previousState = RACE_PAUSED
  /\ race.penaltyServedMillis > now
  /\ race.penaltyBeginMillis = now + (WordMod - race.penaltyServedMillis)
  /\ now > 0

\* C28: start() called while the race is Started or Finished leaves
\* penaltyBeginMillis, penaltyServedMillis and penaltyTimeMillis as they
\* are; start() called while Init sets penaltyBeginMillis to the clock and
\* changes no other penalty field.
C28_StartFrame ==
  [](pc = "serial" =>
      LET a == Race_start(race, now)
          d == dispatch(GO_ON, 0, race, lanes, relay, now).race
          rest(r) == <<r.penaltyServedMillis, r.penaltyTimeMillis,
                       r.falseStartEnabled, r.falseStartDetected>>
      IN /\ d = a
         /\ rest(a) = rest(race)
         /\ (isStarted(race) \/ isFinished(race)) =>
              a.penaltyBeginMillis = race.penaltyBeginMillis
         /\ isInit(race) => a.penaltyBeginMillis = now)

C28_Witness ==
  /\ pc = "serial" /\ isFinished(race) /\ race.falseStartDetected
  /\ race.penaltyBeginMillis = Sentinel /\ lanes[1].falseStart

\* C29 as stated: getPenaltyServedMillis recomputes the served time only
\* with the fuse set and the race Started and otherwise changes nothing and
\* returns the stored value, which is 0 when nothing was recomputed since
\* the setup (as throughout Init); the predicate is false throughout Init.
C29_ServedZeroSinceSetup ==
  LET g == getPenaltyServedMillis(race, now) IN
    /\ IF race.falseStartDetected /\ isStarted(race)
         THEN g = [race EXCEPT !.penaltyServedMillis =
                                 Sub32(now, race.penaltyBeginMillis)]
         ELSE g = race
    /\ isInit(race) => g.penaltyServedMillis = 0

\* C29 amended: getPenaltyServedMillis recomputes penaltyServedMillis as
\* now - penaltyBeginMillis only with the fuse set and the race Started;
\* otherwise it changes nothing and returns the stored value, the one of
\* the last recomputation, or 0 if there was none since the last setup
\* that enabled the false start function (a setup with the function
\* disabled leaves the stored value); isFalseStartPenaltyServed is that
\* value > penaltyTimeMillis and is false throughout Init after an
\* enabled setup.
C29_ServedFrozenUnlessStarted ==
  /\ [](LET g == getPenaltyServedMillis(race, now) IN
          /\ IF race.falseStartDetected /\ isStarted(race)
               THEN g = [race EXCEPT !.penaltyServedMillis =
                                       Sub32(now, race.penaltyBeginMillis)]
               ELSE g = race
          /\ isFalseStartPenaltyServed(race, now)
               = (g.penaltyServedMillis > race.penaltyTimeMillis)
          /\ (isInit(race) /\ race.falseStartEnabled) =>
               /\ g.penaltyServedMillis = 0
               /\ ~isFalseStartPenaltyServed(race, now))
  /\ [][race'.penaltyServedMillis # race.penaltyServedMillis =>
          \/ /\ race.falseStartDetected /\ isStarted(race)
             /\ pc \in {"serial", "report"}
             /\ race'.penaltyServedMillis
                  = Sub32(now, race.penaltyBeginMillis)
          \/ /\ pc = "serial" /\ isInit(race') /\ race'.falseStartEnabled
             /\ race'.penaltyServedMillis = 0]_vars

C29_Witness ==
  /\ pc = "serial" /\ isInit(race) /\ race.falseStartEnabled
  /\ race.falseStartDetected /\ lanes[1].falseStart
  /\ now > race.penaltyTimeMillis + laneProtectionTime

\* C30: an accepted pulse on lane n sets start to the old finish, finish to
\* the clock, count to count + 1 and reported to false, and nothing else:
\* the lane's latch, every relay, the race and every other lane stay as
\* they are; a pulse inside the window changes nothing.
C30_PulseFrame ==
  [][lanes' # lanes =>
       /\ race' = race /\ relay' = relay
       /\ \E n \in Lanes :
            /\ Sub32(now, lanes[n].finish) >= laneProtectionTime
            /\ lanes' = [lanes EXCEPT ![n] =
                           [start |-> lanes[n].finish, finish |-> now,
                            count |-> lanes[n].count + 1, reported |-> FALSE,
                            falseStart |-> lanes[n].falseStart]]]_vars

C30_Witness ==
  /\ lanes[1].falseStart /\ ~lanes[1].reported /\ lanes[1].finish = now
  /\ lanes[1].count = 1 /\ lanes[1].start = SetupMillis
  /\ lanes[2].falseStart /\ lanes[2].reported /\ ~relay[1] /\ relay[2]
  /\ isStarted(race) /\ race.falseStartDetected

\* C31: for every lane finish >= start and count >= -1; count leaves -1
\* only by an accepted pulse and returns to -1 only by a reset, every
\* accepted pulse raises it by one and every setup puts it at -1, so count
\* is -1 exactly when no pulse was accepted since the last reset.
C31_LaneInvariants ==
  /\ [](\A n \in Lanes :
          lanes[n].finish >= lanes[n].start /\ lanes[n].count >= -1)
  /\ [][\A n \in Lanes :
          /\ lanes'[n].finish # lanes[n].finish =>
               /\ attached /\ lanes'[n].count = lanes[n].count + 1
               /\ lanes'[n].start = lanes[n].finish /\ lanes'[n].finish = now
          /\ lanes'[n].count > lanes[n].count =>
               lanes'[n].finish = now /\ lanes'[n].start = lanes[n].finish
          /\ lanes'[n].count < lanes[n].count =>
               /\ pc = "serial" /\ isInit(race')
               /\ lanes'[n].count = -1
               /\ lanes'[n].start = lanes[n].start
               /\ lanes'[n].finish = lanes[n].finish
          /\ (pc = "serial" /\ pc' = pc /\ now' = now) =>
               lanes'[n].count = -1]_vars

C31_Witness ==
  /\ lanes[2].count = -1 /\ lanes[2].finish > SetupMillis + TickMs
  /\ lanes[1].count = 0 /\ lanes[1].start > 0
  /\ lanes[1].finish > lanes[2].finish

\* C32: the race state is always one of Init, Started, Paused, Finished;
\* init(), start(), pause(), finish() can be called in every state and
\* leave the race in their target state; loop() comes back to reading the
\* host's tokens again and again, where RC0, SL061, SL060, RC2 lead to the
\* four states: no state is terminal.
C32_NoTerminalState ==
  /\ [](race.state \in {RACE_INIT, RACE_STARTED, RACE_PAUSED, RACE_FINISHED})
  /\ [](/\ isInit(Race_init(race)) /\ isStarted(Race_start(race, now))
        /\ isPaused(Race_pause(race)) /\ isFinished(Race_finish(race)))
  /\ [](pc = "serial" =>
         \A mode \in ModeSwitch :
           /\ isInit(dispatch(RC0, mode, race, lanes, relay, now).race)
           /\ isStarted(dispatch(GO_ON, mode, race, lanes, relay, now).race)
           /\ isPaused(dispatch(GO_OFF, mode, race, lanes, relay, now).race)
           /\ isFinished(dispatch(RC2, mode, race, lanes, relay, now).race))
  /\ []<>(pc = "serial")

C32_Witness ==
  /\ pc = "detach" /\ attached /\ isFinished(race)
  /\ race.previousState = RACE_PAUSED /\ race.falseStartEnabled

\* ---------------------------------------------------------------- C33
\* C33: in the dispatcher of the 2016-10-22 revision, which tests the latch
\* before it writes the pin, PW0n1 switches the relay of lane n on exactly
\* when lane n itself is not latched, for every lane n; a latched lane's
\* relay stays as it is.
C33_LegacyPowerOnOwnLatch ==
  \A n \in Lanes :
    legacy_PWR_n_ON(n, lanes, relay) =
      IF ~lanes[n].falseStart THEN [relay EXCEPT ![n] = TRUE] ELSE relay

\* ---------------------------------------------------------------- C34
\* the number of lines in ln that carry the message of button b
Sent(b, ln) ==
  Cardinality({i \in 1..Len(ln) : ln[i] = [button |-> ButtonMessage(b)]})

\* C34: a button's token is sent exactly once per press.  After every read
\* reported equals pressed; a pass of loop() that reads the button down
\* after a pass that read it released sends the token once; a pass that
\* reads it down after a pass that read it down (the button held) sends
\* nothing, and so does a pass that reads it released: a further token
\* needs a read of the released button and then a read of the pressed one.
C34_OneTokenPerPress ==
  /\ [](\A b \in ButtonNames : btn[b].reported = btn[b].pressed)
  /\ [][pc = "buttons" =>
          \A b \in ButtonNames :
            /\ (~btn[b].pressed /\ btn'[b].pressed) => Sent(b, out') = 1
            /\ (btn[b].pressed /\ btn'[b].pressed) => Sent(b, out') = 0
            /\ ~btn'[b].pressed => Sent(b, out') = 0]_vars

C34_Witness ==
  /\ pc = "delay"
  /\ btn["racePause"].pressed /\ btn["raceStart"].pressed
  /\ ~btn["raceRestart"].pressed
  /\ out = <<[button |-> BUTTON_RACE_START]>>

\* ---------------------------------------------------------------- C35
\* C35: no false positives.  A lane's latch becomes set only in the pass of
\* reportLap over that lane, with the false start function enabled, the
\* race Init and the lane's lap count 0 (one pulse accepted since the last
\* reset).  A lane whose lap count is 0 or more while the race is Started,
\* Paused or Finished stays unlatched until the race is Init again, and the
\* step that makes the race Init resets the lane's count to -1: a first
\* pulse observed outside Init never latches the lane in that race.
C35_NoFalsePositive ==
  [][\A n \in Lanes :
       /\ (~lanes[n].falseStart /\ lanes'[n].falseStart)
            => /\ pc = "report" /\ rpt = n
               /\ race.falseStartEnabled /\ isInit(race)
               /\ lanes[n].count = 0 /\ lanes'[n].count = 0
       /\ (~isInit(race) /\ isInit(race'))
            => lanes'[n].count = -1 /\ ~lanes'[n].falseStart]_vars

C35_Witness ==
  /\ pc = "buttons" /\ isStarted(race) /\ race.previousState = RACE_INIT
  /\ race.falseStartEnabled /\ ~race.falseStartDetected
  /\ lanes[1].count = 0 /\ lanes[1].reported /\ ~lanes[1].falseStart
  /\ out = None

\* ---------------------------------------------------------------- C36
\* C36: whenever the latch of any lane is set, the race's falseStartEnabled
\* and falseStartDetected are both true.
C36_LatchImpliesFuse ==
  [](\A n \in Lanes :
       lanes[n].falseStart
         => race.falseStartEnabled /\ race.falseStartDetected)

C36_Witness ==
  /\ lanes[1].falseStart /\ ~lanes[2].falseStart
  /\ isPaused(race) /\ race.previousState = RACE_STARTED
  /\ race.falseStartEnabled /\ race.falseStartDetected

\* ---------------------------------------------------------------- C37
\* C37: every lap record carries an elapsed time of at least the protection
\* time, whatever the pulses, the first record after boot and the first
\* record after a reset included: a lane with an unreported lap has
\* finish - start >= laneProtectionTime, every lap line a step sends has
\* ms >= laneProtectionTime (9000), and in the laps-only sketch the line
\* reportLap sends after lapDetected has accepted a pulse has ms >= 3000.
C37_ElapsedAtLeastWindow ==
  /\ [](\A n \in Lanes :
          ~lanes[n].reported
            => Sub32(lanes[n].finish, lanes[n].start) >= laneProtectionTime)
  /\ [][\A i \in 1..Len(out') :
          "lane" \in DOMAIN out'[i] => out'[i].ms >= laneProtectionTime]_vars
  /\ [](\A n \in Lanes :
          LET L2 == LapsOnly_lapDetected(lanes[n], now)
              sent == LapsOnly_reportLap(n, L2).out
          IN \A i \in 1..Len(sent) :
               sent[i].ms >= LapsOnly_laneProtectionTime)

\* the first record after a setup: the time since the last pulse before it
C37_Witness ==
  /\ out = <<[lane |-> 2, ms |-> laneProtectionTime]>>
  /\ lanes[2].count = 0 /\ lanes[2].start = SetupMillis
  /\ lanes[1].count = -1 /\ lanes[1].finish > SetupMillis + TickMs

\* ---------------------------------------------------------------- C38
\* the times of the next pulses on a lane
PulseTimes ==
  {now + d : d \in {0, TickMs - 1, TickMs, 2 * TickMs, laneProtectionTime}}

\* C38: the protection window runs from the last accepted pulse (finish).
\* A pulse less than laneProtectionTime after it is discarded and leaves
\* the lane, finish included, as it is, so that a later pulse is judged
\* against the same finish: discarded pulses do not extend the window.  A
\* pulse laneProtectionTime or more after the last accepted pulse is
\* accepted, whatever pulses were discarded in between.
C38_WindowFromLastAccepted ==
  [](\A n \in Lanes : \A t1 \in PulseTimes : \A t2 \in PulseTimes :
       LET L == lanes[n]
           L1 == Lane_lapDetected(L, t1)
           L2 == Lane_lapDetected(L1, t2)
       IN /\ Sub32(t1, L.finish) < laneProtectionTime => L1 = L
          /\ Sub32(t1, L.finish) >= laneProtectionTime
               => L1.finish = t1 /\ L1.start = L.finish
          /\ (/\ t1 <= t2
              /\ Sub32(t1, L.finish) < laneProtectionTime
              /\ Sub32(t2, L.finish) >= laneProtectionTime)
               => /\ L2.finish = t2 /\ L2.start = L.finish
                  /\ L2.count = L.count + 1 /\ ~L2.reported)

C38_Witness ==
  /\ now = SetupMillis + laneProtectionTime
  /\ lanes[1].finish = now /\ lanes[1].start = SetupMillis
  /\ ~lanes[1].reported
  /\ lanes[2].finish = SetupMillis + TickMs /\ lanes[2].reported
  /\ lanes[2].count = 0

\* ---------------------------------------------------------------- C39
\* C39: Lane::reset leaves start, finish and the lane's relay as they are.
\* The window continues across a setup: the next pulse is discarded or
\* accepted as it would have been without the reset, and the first lap
\* line after the reset carries the time since the last pulse accepted
\* before it.  A step of the serial phase (the setup RC0 among them)
\* changes no lane's start or finish and switches no relay on that is off:
\* a lane cut off by a false start is not re-powered by the reset.
C39_ResetKeepsTimesAndRelay ==
  /\ [](\A n \in Lanes : \A t \in PulseTimes :
          LET L == lanes[n]
              R == Lane_reset(L)
              P == Lane_lapDetected(R, t)
          IN /\ R.start = L.start /\ R.finish = L.finish
             /\ Sub32(t, L.finish) < laneProtectionTime => P = R
             /\ Sub32(t, L.finish) >= laneProtectionTime
                  => /\ P.finish = t /\ P.start = L.finish /\ P.count = 0
                     /\ Lane_reportLap(n, P, relay[n], race, t).out
                          = <<[lane |-> n, ms |-> Sub32(t, L.finish)]>>)
  /\ [][pc = "serial" =>
          \A n \in Lanes :
            /\ lanes'[n].start = lanes[n].start
            /\ lanes'[n].finish = lanes[n].finish
            /\ ~relay[n] => ~relay'[n]]_vars

\* a setup after a false start: the lane reset, its relay still off
C39_Witness ==
  /\ pc = "report" /\ rpt = 1 /\ isInit(race) /\ ~race.falseStartDetected
  /\ lanes[1].count = -1 /\ ~lanes[1].falseStart /\ ~relay[1]
  /\ lanes[1].finish > SetupMillis + TickMs

\* ---------------------------------------------------------------- C40
\* C40: RC3 in a race that is already Paused makes no transition: state
\* and previousState (and the whole race) stay as they are, and no
\* transition method is called.  SL060 always calls pause(): in a Paused
\* race it overwrites previousState with Paused, the state stays Paused,
\* and fromState(RACE_STARTED) is false afterwards.
C40_PauseWhilePaused ==
  [](pc = "serial" /\ isPaused(race) =>
       \A mode \in ModeSwitch :
         LET a == dispatch(RC3, mode, race, lanes, relay, now)
             b == dispatch(GO_OFF, mode, race, lanes, relay, now)
         IN /\ a = [race |-> race, lanes |-> lanes, relay |-> relay]
            /\ called(RC3, race) = "none"
            /\ called(GO_OFF, race) = "pause"
            /\ isPaused(b.race) /\ b.race.previousState = RACE_PAUSED
            /\ ~fromState(b.race, RACE_STARTED)
            /\ b.race = [race EXCEPT !.previousState = RACE_PAUSED]
            /\ b.lanes = lanes /\ b.relay = relay)

\* a race paused from Started, about to read the next token
C40_Witness ==
  /\ pc = "serial" /\ isPaused(race) /\ fromState(race, RACE_STARTED)
  /\ race.falseStartEnabled /\ lanes[1].count = 0 /\ ~lanes[1].falseStart

====
